---- MODULE Spec2Model ----
(***************************************************************************)
(* The NVDA magnifier global plugin (globalPlugins/maginifier-mouse-       *)
(* latest.py): the toggle / zoom / mode commands, the wx.CallLater polling *)
(* loop (_chooseFocus -> _centerMagnifier -> _continueMagnifier), the      *)
(* viewport geometry (_getMagnifierWindow) and the border dead-zone        *)
(* (_isMouseNearBorder).                                                   *)
(*                                                                         *)
(* Numbers.  zoom only ever holds multiples of 0.5, so it is kept in half  *)
(* units: zoom = 4 stands for 2.0.  Screen positions read from the         *)
(* providers are integer pairs.  The values Python computes as floats      *)
(* (visible_width, max_x, dx and, through dx, last_screen_left/top) are    *)
(* kept as exact rationals [n, d]; int() is truncation toward zero.        *)
(***************************************************************************)
EXTENDS Integers, Sequences, FiniteSets, TLC

\* ---------------------------------------------------------------- constants
\* ZOOM_MIN = 1.5, ZOOM_MAX = 10.0, ZOOM_STEP = 0.5, in half units.
ZOOM_MIN == 3
ZOOM_MAX == 20
ZOOM_STEP == 1
MARGIN_BORDER == 50
\* self.zoom = 2.0 in __init__, in half units.
ZOOM_INIT == 4
\* The renderer's "no magnification" factor 1.0 (_resetMagnifier), in half units.
ZOOM_RESET == 2

\* ------------------------------------------------------------------- bounds
\* Pending CallLater timers the plugin no longer references.
MaxOrphans == 1
\* Consecutive border-mode pointer ticks explored before the anchor is set
\* from a reading again.
MaxBorderRun == 1
\* Spec explores zoom-in presses below this level only (half units);
\* SpecZoom explores them all.
MaxZoomExplored == 6

\* Positions the two providers may report.
Points == {<<0, 0>>, <<10, 200>>}

\* Screen sizes GetSystemMetrics may report.
Screens == {<<400, 300>>}

VARIABLES
    magnifier_is_on,   \* self.magnifier_is_on
    zoom,              \* self.zoom, in half units
    last_mouse_pos,    \* self.last_mouse_pos
    last_nvda_pos,     \* self.last_nvda_pos
    last_screen_left,  \* self.last_screen_left (rational)
    last_screen_top,   \* self.last_screen_top (rational)
    mode,              \* self.mode
    timer,             \* self.timer: "None", "running" (pending) or "expired"
    orphans,           \* pending CallLater timers self.timer no longer refers to
    nvdaPos,           \* what _getNVDAPosition returns now
    mousePos,          \* where the OS cursor is now (GetCursorPos)
    screen,            \* <<GetSystemMetrics(0), GetSystemMetrics(1)>>
    ev,                \* the last step: operation, readings, target, warp
    rcalls,            \* MagSetFullscreenTransform calls made by the last step
    resets,            \* reset calls since the last deactivation
    applied,           \* a zoomed transform was applied since the last deactivation
    quiet,             \* activated, and since then no tick and no provider change
    borderRun,         \* border-mode pointer ticks since the anchor was a reading
    magApi,            \* the Magnification API: "works" or "faulty"
    rresults,          \* what each call of rcalls came to
    lastCall           \* the most recent renderer call: <<>> or <<call>>

plugin == <<magnifier_is_on, zoom, last_mouse_pos, last_nvda_pos,
            last_screen_left, last_screen_top, mode, timer, orphans>>
tracking == <<last_mouse_pos, last_nvda_pos, last_screen_left, last_screen_top, mode>>
env == <<nvdaPos, mousePos, screen, magApi>>
vars == <<magnifier_is_on, zoom, last_mouse_pos, last_nvda_pos,
          last_screen_left, last_screen_top, mode, timer, orphans,
          nvdaPos, mousePos, screen, ev, rcalls, resets, applied, quiet,
          borderRun, magApi, rresults, lastCall>>

\* ---------------------------------------------------------------- rationals
\* Gcd, Min, Max, Rat and Trunc bind their arguments with "CHOOSE r \in
\* {e(q) : q \in {arguments}} : TRUE", which is e(arguments) with the
\* arguments evaluated once, as Python evaluates an argument once however
\* often it is used.
RECURSIVE Gcd(_, _)
Gcd(a, b) ==
    CHOOSE r \in {IF q[2] = 0 THEN q[1] ELSE Gcd(q[2], q[1] % q[2]) :
                    q \in {<<a, b>>}} : TRUE

Abs(i) == IF i < 0 THEN -i ELSE i

Min(a, b) ==
    CHOOSE r \in {IF q[1] <= q[2] THEN q[1] ELSE q[2] : q \in {<<a, b>>}} : TRUE

Max(a, b) ==
    CHOOSE r \in {IF q[1] >= q[2] THEN q[1] ELSE q[2] : q \in {<<a, b>>}} : TRUE

\* n/d in lowest terms, d > 0.
Rat(n, d) ==
    CHOOSE r \in {[n |-> q[1] \div q[3], d |-> q[2] \div q[3]] :
                    q \in {<<p[1], p[2], Gcd(Abs(p[1]), p[2])>> : p \in {<<n, d>>}}} : TRUE

R(i) == [n |-> i, d |-> 1]

RAdd(a, b) == Rat(a.n * b.d + b.n * a.d, a.d * b.d)

RSub(a, b) == Rat(a.n * b.d - b.n * a.d, a.d * b.d)

RLt(a, b) == a.n * b.d < b.n * a.d

RHalf(a) == Rat(a.n, 2 * a.d)

\* Python's int() of a float: truncation toward zero.
Trunc(a) ==
    CHOOSE r \in {IF q.n >= 0 THEN q.n \div q.d ELSE -((-q.n) \div q.d) :
                    q \in {a}} : TRUE

\* ----------------------------------------------------------------- renderer
\* One MagSetFullscreenTransform(zoom, left, top) call.
Transform(z, left, top) == [zoom |-> z, left |-> left, top |-> top]

ResetCall == Transform(ZOOM_RESET, 0, 0)

\* What a call comes to in _centerMagnifier and _resetMagnifier: the
\* function returns TRUE ("ok") or FALSE ("failed"), or looking it up raises
\* AttributeError ("unavailable"); the last two are logged.
RenderResults == {"ok", "failed", "unavailable"}

\* The results the calls of one step may have.
ResultsOf(calls) ==
    IF calls = <<>> THEN {<<>>}
    ELSE [1..Len(calls) -> IF magApi = "works" THEN {"ok"} ELSE RenderResults]

\* The calls a step asks of the renderer, and what they come to.
Render(calls) ==
    /\ rcalls' = calls
    /\ rresults' \in ResultsOf(calls)
    /\ lastCall' = IF calls = <<>> THEN lastCall ELSE <<calls[Len(calls)]>>

\* _resetMagnifier: the calls it makes.
_resetMagnifier == <<ResetCall>>

\* ----------------------------------------------------------------- geometry
\* _getMagnifierWindow with the max(0, ...) of line 199 left out.
_getMagnifierWindow_NoLowerClamp(x, y, z, scr) ==
    LET visible_width  == Rat(2 * scr[1], z)
        visible_height == Rat(2 * scr[2], z)
        left0 == Trunc(RSub(x, RHalf(visible_width)))
        top0  == Trunc(RSub(y, RHalf(visible_height)))
    IN  [left |-> Min(left0, Trunc(RSub(R(scr[1]), visible_width))),
         top |-> Min(top0, Trunc(RSub(R(scr[2]), visible_height))),
         visible_width |-> visible_width, visible_height |-> visible_height]

\* _getMagnifierWindow putting (x, y) at the corner, not the middle, of the
\* visible area (the / 2 of line 196 left out).
_getMagnifierWindow_NotHalved(x, y, z, scr) ==
    LET visible_width  == Rat(2 * scr[1], z)
        visible_height == Rat(2 * scr[2], z)
        left0 == Trunc(RSub(x, visible_width))
        top0  == Trunc(RSub(y, visible_height))
    IN  [left |-> Max(0, Min(left0, Trunc(RSub(R(scr[1]), visible_width)))),
         top |-> Max(0, Min(top0, Trunc(RSub(R(scr[2]), visible_height)))),
         visible_width |-> visible_width, visible_height |-> visible_height]

\* _getMagnifierWindow(x, y) at zoom z on screen scr; x, y rational.
_getMagnifierWindow(x, y, z, scr) ==
    LET screen_width   == scr[1]
        screen_height  == scr[2]
        visible_width  == Rat(2 * screen_width, z)
        visible_height == Rat(2 * screen_height, z)
        left0 == Trunc(RSub(x, RHalf(visible_width)))
        top0  == Trunc(RSub(y, RHalf(visible_height)))
        left  == Max(0, Min(left0, Trunc(RSub(R(screen_width), visible_width))))
        top   == Max(0, Min(top0, Trunc(RSub(R(screen_height), visible_height))))
    IN  [left |-> left, top |-> top,
         visible_width |-> visible_width, visible_height |-> visible_height]

\* The transform _centerMagnifier(x, y) sends at zoom z.
CenterCall(x, y, z, scr) ==
    LET w == _getMagnifierWindow(x, y, z, scr)
    IN  Transform(z, w.left, w.top)

\* -------------------------------------------------------- border dead-zone
\* _isMouseNearBorder measuring a cursor beyond max_x and max_y from min_x
\* and min_y (lines 292 and 297 written with the wrong bound).
_isMouseNearBorder_MinForMax(x, y, z, scr, mouse) ==
    LET w       == _getMagnifierWindow(x, y, z, scr)
        mouse_x == R(mouse[1])
        mouse_y == R(mouse[2])
        min_x   == R(w.left + MARGIN_BORDER)
        max_x   == RSub(RAdd(R(w.left), w.visible_width), R(MARGIN_BORDER))
        min_y   == R(w.top + MARGIN_BORDER)
        max_y   == RSub(RAdd(R(w.top), w.visible_height), R(MARGIN_BORDER))
        dx      == IF RLt(mouse_x, min_x) \/ RLt(max_x, mouse_x)
                   THEN RSub(mouse_x, min_x) ELSE R(0)
        dy      == IF RLt(mouse_y, min_y) \/ RLt(max_y, mouse_y)
                   THEN RSub(mouse_y, min_y) ELSE R(0)
    IN  [dx |-> dx, dy |-> dy,
         last_screen_left |-> RAdd(x, dx), last_screen_top |-> RAdd(y, dy)]

\* _isMouseNearBorder with anchor (x, y), after its own cursor read `mouse`:
\* the shift (dx, dy) and the new anchor.
_isMouseNearBorder(x, y, z, scr, mouse) ==
    LET w       == _getMagnifierWindow(x, y, z, scr)
        mouse_x == R(mouse[1])
        mouse_y == R(mouse[2])
        min_x   == R(w.left + MARGIN_BORDER)
        max_x   == RSub(RAdd(R(w.left), w.visible_width), R(MARGIN_BORDER))
        min_y   == R(w.top + MARGIN_BORDER)
        max_y   == RSub(RAdd(R(w.top), w.visible_height), R(MARGIN_BORDER))
        dx      == IF RLt(mouse_x, min_x) THEN RSub(mouse_x, min_x)
                   ELSE IF RLt(max_x, mouse_x) THEN RSub(mouse_x, max_x)
                   ELSE R(0)
        dy      == IF RLt(mouse_y, min_y) THEN RSub(mouse_y, min_y)
                   ELSE IF RLt(max_y, mouse_y) THEN RSub(mouse_y, max_y)
                   ELSE R(0)
    IN  [dx |-> dx, dy |-> dy,
         last_screen_left |-> RAdd(x, dx), last_screen_top |-> RAdd(y, dy)]

\* ------------------------------------------------------------------ history
\* What a step records: the operation, the flag, zoom and quiet it started
\* from and, for a tick, the readings, the target and the warp.
NoEvent(op) ==
    [op |-> op, on |-> magnifier_is_on, zoom |-> zoom, quiet |-> quiet,
     nvdaMoved |-> FALSE, mouseMoved |-> FALSE,
     nvda |-> <<>>, mouse |-> <<>>, focus |-> <<>>, warp |-> <<>>]

IsReset(c) == c = ResetCall

CountResets(calls) == Cardinality({i \in DOMAIN calls : IsReset(calls[i])})

HasApply(calls) == \E i \in DOMAIN calls : ~IsReset(calls[i])

\* The bookkeeping of the renderer calls of one step taken while the flag
\* is `on` afterwards.
Account(calls, on) ==
    /\ Render(calls)
    /\ resets' = IF on THEN 0 ELSE resets + CountResets(calls)
    /\ applied' = IF on THEN FALSE ELSE (applied \/ HasApply(calls))

\* ------------------------------------------------------------- the commands
\* _continueMagnifier left out when a renderer call of the step raised
\* AttributeError (the call to it placed inside the try block): the timer
\* that fired is not replaced.
ContinueTimer_InsideTry(on) ==
    IF \E i \in DOMAIN rresults' : rresults'[i] = "unavailable" THEN "expired"
    ELSE IF on THEN "running" ELSE "None"

\* _continueMagnifier that arms no new timer.
ContinueTimer_NoRearm(on) == "None"

\* _continueMagnifier: Stop() the referenced timer, then re-arm or tear down.
\* on: the new self.timer and the renderer calls.
ContinueTimer(on) == IF on THEN "running" ELSE "None"

\* _continueMagnifier without the _resetMagnifier of line 230.
ContinueCalls_NoReset(on) == <<>>

\* _continueMagnifier resetting whatever the flag is.
ContinueCalls_ResetAlways(on) == _resetMagnifier

ContinueCalls(on) == IF on THEN <<>> ELSE _resetMagnifier

\* Activation that also takes the providers' readings as the last positions.
Activate_InitTracking ==
    /\ timer = "running" => orphans < MaxOrphans
    /\ magnifier_is_on' = TRUE
    /\ orphans' = IF timer = "running" THEN orphans + 1 ELSE orphans
    /\ timer' = "running"
    /\ Account(<<>>, TRUE)
    /\ quiet' = TRUE
    /\ last_nvda_pos' = nvdaPos
    /\ last_mouse_pos' = mousePos
    /\ UNCHANGED <<last_screen_left, last_screen_top, mode, env>>

\* script_toggleMagnifier, the branch that turns the magnifier on.
Activate ==
    /\ timer = "running" => orphans < MaxOrphans
    /\ magnifier_is_on' = TRUE
    \* self.timer is overwritten: a timer still pending stays pending
    /\ orphans' = IF timer = "running" THEN orphans + 1 ELSE orphans
    /\ timer' = "running"
    /\ Account(<<>>, TRUE)
    /\ quiet' = TRUE
    /\ UNCHANGED <<tracking, env>>

\* Deactivation that also stops the pending timer.
Deactivate_StopTimer ==
    /\ magnifier_is_on' = FALSE
    /\ timer' = IF timer = "running" THEN "expired" ELSE timer
    /\ UNCHANGED orphans
    /\ Render(_resetMagnifier)
    /\ resets' = 1
    /\ applied' = FALSE
    /\ quiet' = FALSE
    /\ UNCHANGED <<tracking, env>>

\* script_toggleMagnifier, the branch that turns it off.
Deactivate ==
    /\ magnifier_is_on' = FALSE
    /\ UNCHANGED <<timer, orphans>>
    /\ Render(_resetMagnifier)
    /\ resets' = 1
    /\ applied' = FALSE
    /\ quiet' = FALSE
    /\ UNCHANGED <<tracking, env>>

\* script_toggleMagnifier
script_toggleMagnifier ==
    /\ IF ~magnifier_is_on THEN Activate ELSE Deactivate
    /\ ev' = NoEvent("toggle")
    /\ UNCHANGED <<zoom, borderRun>>

\* script_toggleMouseMode without its test.
ModeGuard_Always == TRUE

\* The test script_toggleMouseMode makes before it flips the mode.
ModeGuard == magnifier_is_on

\* script_toggleMouseMode
script_toggleMouseMode ==
    /\ IF ModeGuard
       THEN mode' = IF mode = "center" THEN "border" ELSE "center"
       ELSE UNCHANGED mode
    /\ ev' = NoEvent("mode")
    /\ Render(<<>>)
    /\ UNCHANGED <<magnifier_is_on, zoom, last_mouse_pos, last_nvda_pos,
                   last_screen_left, last_screen_top, timer, orphans,
                   env, resets, applied, quiet, borderRun>>

\* _zoom without the min(..., ZOOM_MAX).
ZoomTo_NoUpperClamp(z, direction) ==
    IF direction > 0 THEN z + ZOOM_STEP
    ELSE Max(z - ZOOM_STEP, ZOOM_MIN)

\* _zoom that zooms in whatever the direction.
ZoomTo_IgnoreDirection(z, direction) == Min(z + ZOOM_STEP, ZOOM_MAX)

\* The zoom level _zoom(direction) moves to.
ZoomTo(z, direction) ==
    IF direction > 0 THEN Min(z + ZOOM_STEP, ZOOM_MAX)
    ELSE Max(z - ZOOM_STEP, ZOOM_MIN)

\* _zoom without its test.
ZoomGuard_Always == TRUE

\* The test _zoom makes before it changes the level.
ZoomGuard == magnifier_is_on

\* _zoom(direction), ending in _centerMagnifier on the anchor.
_zoom(direction) ==
    /\ IF ZoomGuard
       THEN /\ zoom' = ZoomTo(zoom, direction)
            /\ Account(<<CenterCall(last_screen_left, last_screen_top, zoom', screen)>>
                         \o ContinueCalls(TRUE), TRUE)
            /\ timer' = ContinueTimer(TRUE)
       ELSE /\ UNCHANGED <<zoom, timer, resets, applied>>
            /\ Render(<<>>)
    /\ ev' = NoEvent(IF direction > 0 THEN "zoomIn" ELSE "zoomOut")
    /\ UNCHANGED <<magnifier_is_on, tracking, orphans, env, quiet, borderRun>>

script_zoomIn == _zoom(1)

script_zoomOut == _zoom(-1)

\* ------------------------------------------------------------------ the tick
\* _focusOnNvda without winUser.setCursorPos (line 335 left out).
_focusOnNvda_NoWarp(pos) ==
    /\ last_nvda_pos' = pos
    /\ last_screen_left' = R(pos[1])
    /\ last_screen_top' = R(pos[2])
    /\ borderRun' = 0
    /\ UNCHANGED <<last_mouse_pos, mousePos>>

\* _focusOnNvda(pos): records the position, moves the anchor, warps the cursor
\* (winUser.setCursorPos puts it on pos: the review positions explored where
\* a warp happens are on the screen).
_focusOnNvda(pos) ==
    /\ last_nvda_pos' = pos
    /\ last_screen_left' = R(pos[1])
    /\ last_screen_top' = R(pos[2])
    /\ mousePos' = pos
    /\ borderRun' = 0
    /\ UNCHANGED last_mouse_pos

\* _focusOnMouse leaving the anchor where it is in center mode (line 342
\* left out) and centring on the old anchor.
_focusOnMouse_KeepAnchor(pos, reread) ==
    /\ mode = "border" => borderRun < MaxBorderRun
    /\ last_mouse_pos' = IF mode = "border" THEN reread ELSE pos
    /\ borderRun' = IF mode = "border" THEN borderRun + 1 ELSE 0
    /\ UNCHANGED <<last_screen_left, last_screen_top, mousePos, last_nvda_pos>>

\* _focusOnMouse(pos); in border mode _isMouseNearBorder reads the cursor
\* again (reread) and records that reading.
_focusOnMouse(pos, reread) ==
    /\ IF mode = "border"
       THEN LET b == _isMouseNearBorder(last_screen_left, last_screen_top,
                                        zoom, screen, reread)
            IN  /\ borderRun < MaxBorderRun
                /\ borderRun' = borderRun + 1
                /\ last_mouse_pos' = reread
                /\ last_screen_left' = b.last_screen_left
                /\ last_screen_top' = b.last_screen_top
                /\ mousePos' = reread
       ELSE /\ last_mouse_pos' = pos
            /\ last_screen_left' = R(pos[1])
            /\ last_screen_top' = R(pos[2])
            /\ borderRun' = 0
            /\ UNCHANGED mousePos
    /\ UNCHANGED last_nvda_pos

\* _chooseFocus testing the pointer before the review position.
ChooseWinner_MouseFirst(nvdaMoved, mouseMoved) ==
    IF mouseMoved THEN "mouse" ELSE IF nvdaMoved THEN "nvda" ELSE "idle"

\* The branch _chooseFocus takes.
ChooseWinner(nvdaMoved, mouseMoved) ==
    IF nvdaMoved THEN "nvda" ELSE IF mouseMoved THEN "mouse" ELSE "idle"

\* _chooseFocus, run by a CallLater that fires: the one self.timer refers
\* to, or one the plugin lost track of.  Rereads: where the cursor may be
\* found by the second GetCursorPos of a border-mode tick.
ChooseFocus(Rereads) ==
    \E fired \in {"timer", "orphan"}, reread \in Rereads :
        /\ fired = "timer" => timer = "running"
        /\ fired = "orphan" => orphans > 0
        /\ orphans' = IF fired = "orphan" THEN orphans - 1 ELSE orphans
        /\ LET nvda_pos  == nvdaPos
               mouse_pos == mousePos
               nvdaMoved  == last_nvda_pos # nvda_pos
               mouseMoved == last_mouse_pos # mouse_pos
               winner == ChooseWinner(nvdaMoved, mouseMoved)
               here == [NoEvent("tick") EXCEPT !.nvdaMoved = nvdaMoved,
                           !.mouseMoved = mouseMoved,
                           !.nvda = <<nvda_pos>>, !.mouse = <<mouse_pos>>]
           IN  IF winner = "nvda"
               THEN /\ _focusOnNvda(nvda_pos)
                    /\ ev' = [here EXCEPT !.focus = <<R(nvda_pos[1]), R(nvda_pos[2])>>,
                                          !.warp = <<nvda_pos>>]
                    /\ Account(<<CenterCall(R(nvda_pos[1]), R(nvda_pos[2]), zoom, screen)>>
                                 \o ContinueCalls(magnifier_is_on), magnifier_is_on)
               ELSE IF winner = "mouse"
               THEN /\ _focusOnMouse(mouse_pos, reread)
                    /\ ev' = [here EXCEPT !.focus = <<last_screen_left', last_screen_top'>>]
                    /\ Account(<<CenterCall(last_screen_left', last_screen_top', zoom, screen)>>
                                 \o ContinueCalls(magnifier_is_on), magnifier_is_on)
               ELSE /\ UNCHANGED <<last_nvda_pos, last_mouse_pos, last_screen_left,
                                   last_screen_top, mousePos, borderRun>>
                    /\ ev' = here
                    /\ Account(ContinueCalls(magnifier_is_on), magnifier_is_on)
        /\ timer' = ContinueTimer(magnifier_is_on)
        /\ quiet' = FALSE
        /\ UNCHANGED <<magnifier_is_on, zoom, mode, nvdaPos, screen, magApi>>

_chooseFocus == ChooseFocus(Points)

\* ---------------------------------------------------------- the environment
\* The user moves the mouse, to a position of Ps.
MouseMoves(Ps) ==
    /\ \E p \in Ps \ {mousePos} : mousePos' = p
    /\ ev' = NoEvent("env")
    /\ Render(<<>>)
    /\ quiet' = FALSE
    /\ UNCHANGED <<plugin, nvdaPos, screen, magApi, resets, applied, borderRun>>

MoveMouse == MouseMoves(Points)

\* The review position (or navigator object) moves, to a position of Ps.
NvdaMoves(Ps) ==
    /\ \E p \in Ps \ {nvdaPos} : nvdaPos' = p
    /\ ev' = NoEvent("env")
    /\ Render(<<>>)
    /\ quiet' = FALSE
    /\ UNCHANGED <<plugin, mousePos, screen, magApi, resets, applied, borderRun>>

MoveNvda == NvdaMoves(Points)

\* ------------------------------------------------------------ specification
\* __init__; the providers and the screen are wherever they are.
Init ==
    /\ timer = "None"
    /\ orphans = 0
    /\ magnifier_is_on = FALSE
    /\ zoom = ZOOM_INIT
    /\ last_mouse_pos = <<0, 0>>
    /\ last_nvda_pos = <<0, 0>>
    /\ last_screen_left = R(0)
    /\ last_screen_top = R(0)
    /\ mode = "center"
    /\ nvdaPos \in Points
    /\ mousePos \in Points
    /\ screen \in Screens
    /\ magApi = "works"
    /\ rcalls = <<>>
    /\ rresults = <<>>
    /\ lastCall = <<>>
    /\ resets = 0
    /\ applied = FALSE
    /\ quiet = FALSE
    /\ borderRun = 0
    /\ ev = NoEvent("init")

Next ==
    \/ script_toggleMagnifier
    \/ (zoom < MaxZoomExplored /\ script_zoomIn)
    \/ script_zoomOut
    \/ script_toggleMouseMode
    \/ _chooseFocus
    \/ MoveMouse
    \/ MoveNvda

Spec == Init /\ [][Next]_vars

\* The same plugin with a Magnification API whose calls may fail.
InitRender ==
    /\ timer = "None"
    /\ orphans = 0
    /\ magnifier_is_on = FALSE
    /\ zoom = ZOOM_INIT
    /\ last_mouse_pos = <<0, 0>>
    /\ last_nvda_pos = <<0, 0>>
    /\ last_screen_left = R(0)
    /\ last_screen_top = R(0)
    /\ mode = "center"
    /\ nvdaPos \in Points
    /\ mousePos \in Points
    /\ screen \in Screens
    /\ magApi = "faulty"
    /\ rcalls = <<>>
    /\ rresults = <<>>
    /\ lastCall = <<>>
    /\ resets = 0
    /\ applied = FALSE
    /\ quiet = FALSE
    /\ borderRun = 0
    /\ ev = NoEvent("init")

\* The steps of Spec, zooming in from the initial level and below only.
NextRender ==
    \/ script_toggleMagnifier
    \/ (zoom <= ZOOM_INIT /\ script_zoomIn)
    \/ script_zoomOut
    \/ script_toggleMouseMode
    \/ _chooseFocus
    \/ MoveMouse
    \/ MoveNvda

SpecRender == InitRender /\ [][NextRender]_vars

\* Every zoom level, with the providers at rest.
NextZoom ==
    \/ script_toggleMagnifier
    \/ script_zoomIn
    \/ script_zoomOut
    \/ script_toggleMouseMode
    \/ _chooseFocus

SpecZoom == Init /\ [][NextZoom]_vars

\* The commands of the center mode, the moves of the environment and the
\* timer, a pending CallLater being fired by the wx event loop sooner or later.
NextLive ==
    \/ script_toggleMagnifier
    \/ (zoom < MaxZoomExplored /\ script_zoomIn)
    \/ script_zoomOut
    \/ _chooseFocus
    \/ MoveMouse
    \/ MoveNvda

SpecLive == Init /\ [][NextLive]_vars /\ WF_vars(_chooseFocus)

\* The geometry on its inputs: an active session that last centred on the
\* review position p (the cursor warped there and seen there), at any zoom
\* and mode, on any of the screens, with the cursor now anywhere.
GeoXs == {-40, 0, 137, 960, 5000}

GeoYs == {-7, 75, 540, 2000}

GeoPoints == {<<x, y>> : x \in GeoXs, y \in GeoYs}

\* Where the cursor starts.
GeoCursors == {<<-40, -7>>, <<0, 75>>, <<137, 75>>, <<960, 540>>, <<5000, 2000>>}

GeoScreens == {<<1, 1>>, <<7, 3>>, <<400, 300>>, <<1920, 1080>>}

InitGeo ==
    /\ timer = "running"
    /\ orphans = 0
    /\ magnifier_is_on = TRUE
    /\ zoom \in ZOOM_MIN..ZOOM_MAX
    /\ mode \in {"center", "border"}
    /\ nvdaPos \in GeoPoints
    /\ last_nvda_pos = nvdaPos
    /\ last_mouse_pos = nvdaPos
    /\ last_screen_left = R(nvdaPos[1])
    /\ last_screen_top = R(nvdaPos[2])
    /\ mousePos \in GeoCursors
    /\ screen \in GeoScreens
    /\ magApi = "works"
    /\ rcalls = <<>>
    /\ rresults = <<>>
    /\ lastCall = <<>>
    /\ resets = 0
    /\ applied = FALSE
    /\ quiet = FALSE
    /\ borderRun = 0
    /\ ev = NoEvent("init")

NextGeo ==
    \/ script_zoomIn
    \/ script_zoomOut
    \/ _chooseFocus

SpecGeo == InitGeo /\ [][NextGeo]_vars

\* The border dead-zone on its inputs: an active session in border mode
\* that last centred on the review position (the cursor warped there and
\* seen there), the zoom changed since, with the cursor moving among
\* positions inside, near the edge of and outside the dead-zone.
BorderPoints == {<<0, 0>>, <<10, 200>>, <<300, 200>>, <<30, 10>>, <<50, 30>>}

BorderScreens == {<<400, 300>>, <<1000, 800>>}

BorderZooms == {3, 4, 8, 10, 20}

InitBorder ==
    /\ timer = "running"
    /\ orphans = 0
    /\ magnifier_is_on = TRUE
    /\ zoom \in BorderZooms
    /\ mode = "border"
    /\ nvdaPos \in BorderPoints
    /\ last_nvda_pos = nvdaPos
    /\ last_mouse_pos = nvdaPos
    /\ last_screen_left = R(nvdaPos[1])
    /\ last_screen_top = R(nvdaPos[2])
    /\ mousePos \in BorderPoints
    /\ screen \in BorderScreens
    /\ magApi = "works"
    /\ rcalls = <<>>
    /\ rresults = <<>>
    /\ lastCall = <<>>
    /\ resets = 0
    /\ applied = FALSE
    /\ quiet = FALSE
    /\ borderRun = 0
    /\ ev = NoEvent("init")

BorderTick == ChooseFocus(BorderPoints)

BorderMove == MouseMoves(BorderPoints)

NextBorder ==
    \/ BorderTick
    \/ BorderMove

SpecBorder == InitBorder /\ [][NextBorder]_vars

\* An active session of either mode followed through ticks while both
\* providers move: screens whose visible area is well above, and just above,
\* two margins at the zoom levels explored.
EchoPoints == {<<0, 0>>, <<10, 200>>, <<200, 100>>, <<390, 150>>}

EchoScreens == {<<400, 300>>, <<400, 201>>}

EchoZooms == {3, 4, 5}

InitEcho ==
    /\ timer = "running"
    /\ orphans = 0
    /\ magnifier_is_on = TRUE
    /\ zoom \in EchoZooms
    /\ mode \in {"center", "border"}
    /\ nvdaPos \in EchoPoints
    /\ last_nvda_pos = nvdaPos
    /\ last_mouse_pos = nvdaPos
    /\ last_screen_left = R(nvdaPos[1])
    /\ last_screen_top = R(nvdaPos[2])
    /\ mousePos \in EchoPoints
    /\ screen \in EchoScreens
    /\ magApi = "works"
    /\ rcalls = <<>>
    /\ rresults = <<>>
    /\ lastCall = <<>>
    /\ resets = 0
    /\ applied = FALSE
    /\ quiet = FALSE
    /\ borderRun = 0
    /\ ev = NoEvent("init")

EchoTick == ChooseFocus(EchoPoints)

EchoMouse == MouseMoves(EchoPoints)

EchoNvda == NvdaMoves(EchoPoints)

NextEcho ==
    \/ EchoTick
    \/ EchoMouse
    \/ EchoNvda

SpecEcho == InitEcho /\ [][NextEcho]_vars

\* ------------------------------------------------ the centered-only variant
\* maginifier-mouse-centered.py holds the same state under other names:
\* magnifierIsOn is magnifier_is_on, lastMousePos last_mouse_pos, lastNVDAPos
\* last_nvda_pos, (lastX, lastY) (last_screen_left, last_screen_top); it has
\* no mode, and its steps leave that variable alone.
Centered_ZOOM_MIN == 3
Centered_ZOOM_MAX == 20
Centered_ZOOM_STEP == 1
\* self.zoom = 2.0 in its __init__, in half units.
Centered_ZOOM_INIT == 4

\* Its __init__.
Centered_Init ==
    /\ timer = "None"
    /\ orphans = 0
    /\ magnifier_is_on = FALSE
    /\ zoom = Centered_ZOOM_INIT
    /\ last_mouse_pos = <<0, 0>>
    /\ last_nvda_pos = <<0, 0>>
    /\ last_screen_left = R(0)
    /\ last_screen_top = R(0)
    /\ rcalls = <<>>

\* Its _resetMagnifier: the calls it makes.
Centered_resetMagnifier == <<Transform(2, 0, 0)>>

\* Its _getMagnifierWindow(x, y) at zoom z on screen scr: (left, top).
Centered_getMagnifierWindow(x, y, z, scr) ==
    LET screenWidth   == scr[1]
        screenHeight  == scr[2]
        visibleWidth  == Rat(2 * screenWidth, z)
        visibleHeight == Rat(2 * screenHeight, z)
        left == Trunc(RSub(x, RHalf(visibleWidth)))
        top  == Trunc(RSub(y, RHalf(visibleHeight)))
    IN  <<Max(0, Min(left, Trunc(RSub(R(screenWidth), visibleWidth)))),
          Max(0, Min(top, Trunc(RSub(R(screenHeight), visibleHeight))))>>

\* Its _centerMagnifier(x, y) followed by _continueMagnifier while the flag
\* is `on`: the renderer calls made and the new self.timer.
Centered_centerMagnifier(x, y, z, scr, on) ==
    LET w == Centered_getMagnifierWindow(x, y, z, scr)
    IN  <<Transform(z, w[1], w[2])>> \o (IF on THEN <<>> ELSE Centered_resetMagnifier)

Centered_continueMagnifier(on) == IF on THEN "running" ELSE "None"

\* script_ToggleMagnifier
script_ToggleMagnifier ==
    /\ IF ~magnifier_is_on
       THEN /\ timer = "running" => orphans < MaxOrphans
            /\ magnifier_is_on' = TRUE
            /\ orphans' = IF timer = "running" THEN orphans + 1 ELSE orphans
            /\ timer' = "running"
            /\ Account(<<>>, TRUE)
            /\ quiet' = TRUE
       ELSE /\ magnifier_is_on' = FALSE
            /\ UNCHANGED <<timer, orphans>>
            /\ Render(Centered_resetMagnifier)
            /\ resets' = 1
            /\ applied' = FALSE
            /\ quiet' = FALSE
    /\ ev' = NoEvent("toggle")
    /\ UNCHANGED <<zoom, tracking, env, borderRun>>

\* Its _zoom(direction).
Centered_zoom(direction) ==
    /\ IF magnifier_is_on
       THEN /\ zoom' = IF direction > 0
                       THEN Min(zoom + Centered_ZOOM_STEP, Centered_ZOOM_MAX)
                       ELSE Max(zoom - Centered_ZOOM_STEP, Centered_ZOOM_MIN)
            /\ Account(Centered_centerMagnifier(last_screen_left, last_screen_top,
                                                zoom', screen, TRUE), TRUE)
            /\ timer' = Centered_continueMagnifier(TRUE)
       ELSE /\ UNCHANGED <<zoom, timer, resets, applied>>
            /\ Render(<<>>)
    /\ ev' = NoEvent(IF direction > 0 THEN "zoomIn" ELSE "zoomOut")
    /\ UNCHANGED <<magnifier_is_on, tracking, orphans, env, quiet, borderRun>>

Centered_script_zoomIn == Centered_zoom(1)

Centered_script_zoomOut == Centered_zoom(-1)

\* Its _chooseFocus.  _isNVDAMoving and _isMouseMoving read a provider, and
\* the branch taken reads it again: nvdaAgain and mouseAgain are what the
\* second readings return, the provider having moved there if they differ.
Centered_ChooseFocus(nvdaAgain, mouseAgain) ==
    \E fired \in {"timer", "orphan"} :
        /\ fired = "timer" => timer = "running"
        /\ fired = "orphan" => orphans > 0
        /\ orphans' = IF fired = "orphan" THEN orphans - 1 ELSE orphans
        /\ LET isNVDAMoving  == last_nvda_pos # nvdaPos
               isMouseMoving == last_mouse_pos # mousePos
               here == [NoEvent("tick") EXCEPT !.nvdaMoved = isNVDAMoving,
                           !.mouseMoved = isMouseMoving,
                           !.nvda = <<nvdaPos>>, !.mouse = <<mousePos>>]
           IN  IF isNVDAMoving
               THEN /\ nvdaPos' = nvdaAgain
                    /\ last_nvda_pos' = nvdaAgain
                    /\ last_screen_left' = R(nvdaAgain[1])
                    /\ last_screen_top' = R(nvdaAgain[2])
                    /\ mousePos' = nvdaAgain
                    /\ UNCHANGED last_mouse_pos
                    /\ ev' = [here EXCEPT !.focus = <<R(nvdaAgain[1]), R(nvdaAgain[2])>>,
                                          !.warp = <<nvdaAgain>>]
                    /\ Account(Centered_centerMagnifier(R(nvdaAgain[1]), R(nvdaAgain[2]),
                                    zoom, screen, magnifier_is_on), magnifier_is_on)
               ELSE IF isMouseMoving
               THEN /\ mousePos' = mouseAgain
                    /\ last_mouse_pos' = mouseAgain
                    /\ last_screen_left' = R(mouseAgain[1])
                    /\ last_screen_top' = R(mouseAgain[2])
                    /\ UNCHANGED <<last_nvda_pos, nvdaPos>>
                    /\ ev' = [here EXCEPT !.focus = <<R(mouseAgain[1]), R(mouseAgain[2])>>]
                    /\ Account(Centered_centerMagnifier(R(mouseAgain[1]), R(mouseAgain[2]),
                                    zoom, screen, magnifier_is_on), magnifier_is_on)
               ELSE /\ UNCHANGED <<last_nvda_pos, last_mouse_pos, last_screen_left,
                                   last_screen_top, mousePos, nvdaPos>>
                    /\ ev' = here
                    /\ Account(IF magnifier_is_on THEN <<>> ELSE Centered_resetMagnifier,
                               magnifier_is_on)
        /\ timer' = Centered_continueMagnifier(magnifier_is_on)
        /\ quiet' = FALSE
        /\ borderRun' = 0
        /\ UNCHANGED <<magnifier_is_on, zoom, mode, screen, magApi>>

Centered_chooseFocus ==
    \E nvdaAgain \in Points, mouseAgain \in Points :
        Centered_ChooseFocus(nvdaAgain, mouseAgain)

\* The two variants side by side, the newer one without its mode command:
\* every step is a command or a tick of one of them, or a move of the
\* environment.
NextBoth ==
    \/ script_toggleMagnifier
    \/ script_zoomIn
    \/ script_zoomOut
    \/ _chooseFocus
    \/ script_ToggleMagnifier
    \/ Centered_script_zoomIn
    \/ Centered_script_zoomOut
    \/ Centered_chooseFocus
    \/ MoveMouse
    \/ MoveNvda

SpecBoth == Init /\ [][NextBoth]_vars

\* =================================================================== claims
Pt(r) == <<R(r[1]), R(r[2])>>

ZoomOps == {"zoomIn", "zoomOut"}

\* C1 (as claimed): once an active session has been deactivated, and until it
\* is activated again, the renderer has been reset exactly once and no
\* zoomed transform has been applied.
C1_SessionReset ==
    (~magnifier_is_on /\ resets > 0) => (resets = 1 /\ ~applied)

\* C2: a tick that finds both the review position and the pointer changed
\* targets the review position: the transform sent is the window around it,
\* the anchor and last_nvda_pos are it, and the cursor is warped onto it,
\* in either mode.
C2_AccessibilityWins ==
    (ev.op = "tick" /\ ev.nvdaMoved /\ ev.mouseMoved) =>
        /\ ev.focus = Pt(ev.nvda[1])
        /\ rcalls[1] = CenterCall(R(ev.nvda[1][1]), R(ev.nvda[1][2]), zoom, screen)
        /\ last_nvda_pos = ev.nvda[1]
        /\ <<last_screen_left, last_screen_top>> = Pt(ev.nvda[1])
        /\ ev.warp = ev.nvda
        /\ mousePos = ev.nvda[1]

\* C2 witness: in border mode, a tick saw both move, to different places.
C2_Witness ==
    /\ ev.op = "tick" /\ ev.nvdaMoved /\ ev.mouseMoved
    /\ ev.nvda # ev.mouse
    /\ mode = "border"
    /\ ev.warp = ev.nvda

C6_ZoomInRange == ZOOM_MIN <= zoom /\ zoom <= ZOOM_MAX

\* C6 witness: a zoom-in pressed at ZOOM_MAX in an active session.
C6_Witness ==
    /\ ev.op = "zoomIn" /\ ev.on
    /\ ev.zoom = ZOOM_MAX
    /\ zoom = ZOOM_MAX

\* C7: in an active session a zoom command moves the level by exactly
\* ZOOM_STEP in its direction, or to the bound when that would leave
\* [ZOOM_MIN, ZOOM_MAX].
C7_ZoomStep ==
    (ev.op \in ZoomOps /\ ev.on) =>
        IF ev.op = "zoomIn"
        THEN IF ev.zoom + ZOOM_STEP <= ZOOM_MAX
             THEN zoom - ev.zoom = ZOOM_STEP ELSE zoom = ZOOM_MAX
        ELSE IF ev.zoom - ZOOM_STEP >= ZOOM_MIN
             THEN ev.zoom - zoom = ZOOM_STEP ELSE zoom = ZOOM_MIN

\* C7 witness: a zoom-out pressed at ZOOM_MIN in an active session.
C7_Witness ==
    /\ ev.op = "zoomOut" /\ ev.on
    /\ ev.zoom = ZOOM_MIN
    /\ zoom = ZOOM_MIN

\* C8: a zoom command in an inactive session changes nothing of the plugin
\* (zoom, last positions, anchor, mode, timers), and calls no renderer.
C8_ZoomRejected ==
    [][ (ev'.op \in ZoomOps /\ ~magnifier_is_on) =>
            (UNCHANGED <<plugin, env>> /\ rcalls' = <<>>) ]_vars

\* C8 witness: a zoom-in was pressed in an inactive session.
C8_Witness ==
    /\ ev.op = "zoomIn" /\ ~ev.on
    /\ ~magnifier_is_on

\* C9: the mode changes only by the mode command in an active session,
\* which flips it; in an inactive session the command changes nothing.
C9_ModeOnlyWhenActive ==
    [][ /\ mode' # mode => (magnifier_is_on /\ ev'.op = "mode")
        /\ (ev'.op = "mode" /\ magnifier_is_on) =>
              (mode' # mode /\ mode' \in {"center", "border"})
        /\ (ev'.op = "mode" /\ ~magnifier_is_on) => UNCHANGED <<plugin, env>> ]_vars

\* C9 witness: the mode command pressed in an inactive session left the
\* mode at border.
C9_Witness ==
    /\ ev.op = "mode" /\ ~ev.on
    /\ mode = "border"

\* A transform's origin lies in [0, width - width/zoom] x [0, height - height/zoom].
OriginInRange(c, scr) ==
    /\ 0 <= c.left
    /\ c.left * c.zoom <= scr[1] * c.zoom - 2 * scr[1]
    /\ 0 <= c.top
    /\ c.top * c.zoom <= scr[2] * c.zoom - 2 * scr[2]

\* C10: every transform applied has its origin within
\* 0 <= left <= width - width/zoom and 0 <= top <= height - height/zoom.
C10_OriginClamped ==
    \A i \in DOMAIN rcalls :
        ~IsReset(rcalls[i]) => OriginInRange(rcalls[i], screen)

\* C10 witness: a tick centred on a point left of and above the screen.
C10_Witness ==
    /\ ev.op = "tick" /\ ev.focus # <<>>
    /\ ev.focus[1].n < 0 /\ ev.focus[2].n < 0
    /\ rcalls[1].left = 0 /\ rcalls[1].top = 0

\* The rational c lies in [w/zoom, w - w/zoom]: half a visible extent away
\* from both ends of a screen extent w (z is the zoom in half units).
SafeInterior(c, z, w) ==
    /\ w * c.d <= c.n * z
    /\ c.n * z <= (w * z - w) * c.d

\* |origin + (w/zoom)/2 - c| <= 1 for the rational c.
WithinOnePixel(origin, c, z, w) ==
    Abs(origin * z * c.d + w * c.d - c.n * z) <= z * c.d

\* C11: a transform applied for a center point (the anchor the step leaves)
\* that is at least half a visible extent away from every screen edge is
\* centered on it within one pixel on both axes; on a 1920x1080 screen at
\* zoom 2.0 the center (960, 540) gives the origin (480, 270).
C11_Centered ==
    \A i \in DOMAIN rcalls :
        ~IsReset(rcalls[i]) =>
            LET c == rcalls[i]
            IN  /\ ( /\ SafeInterior(last_screen_left, c.zoom, screen[1])
                      /\ SafeInterior(last_screen_top, c.zoom, screen[2]) ) =>
                        /\ WithinOnePixel(c.left, last_screen_left, c.zoom, screen[1])
                        /\ WithinOnePixel(c.top, last_screen_top, c.zoom, screen[2])
                /\ ( /\ screen = <<1920, 1080>>
                      /\ c.zoom = 4
                      /\ <<last_screen_left, last_screen_top>> = Pt(<<960, 540>>) ) =>
                        (c.left = 480 /\ c.top = 270)

\* C11 witness: a tick centered on (960, 540) at zoom 2.0 on 1920x1080 and
\* sent the origin (480, 270).
C11_Witness ==
    /\ ev.op = "tick" /\ ev.focus = Pt(<<960, 540>>)
    /\ screen = <<1920, 1080>> /\ zoom = 4
    /\ rcalls = <<Transform(4, 480, 270)>>

\* The step is a tick won by the pointer in border mode.
BorderPointerTick ==
    /\ ev'.op = "tick" /\ ~ev'.nvdaMoved /\ ev'.mouseMoved
    /\ mode = "border"

\* The shift d the dead-zone [lo, hi] asks for a pointer at p on one axis:
\* none inside, p - lo below it, p - hi above it.
AxisShift(p, lo, hi, d) ==
    /\ (~RLt(p, lo) /\ ~RLt(hi, p)) => d = R(0)
    /\ RLt(p, lo) => d = RSub(p, lo)
    /\ (RLt(hi, p) /\ ~RLt(p, lo)) => d = RSub(p, hi)

\* C12: in a border-mode pointer tick, with the viewport of the previous
\* anchor and the inner bounds min = origin + margin, max = origin + extent
\* - margin, the anchor moves by (dx, dy) where dx = 0 for a pointer within
\* [minX, maxX], pointer.x - minX left of it and pointer.x - maxX right of
\* it, and dy likewise; with the viewport {0, 0, 500, 400} the pointer
\* (300, 200) leaves the anchor and the pointer (10, 200) gives dx = -40.
\* The pointer is the cursor position the tracker reads (last_mouse_pos).
C12_DeadZone ==
    [][ BorderPointerTick =>
          LET w  == _getMagnifierWindow(last_screen_left, last_screen_top, zoom, screen)
              px == R(last_mouse_pos'[1])
              py == R(last_mouse_pos'[2])
              minX == R(w.left + MARGIN_BORDER)
              maxX == RSub(RAdd(R(w.left), w.visible_width), R(MARGIN_BORDER))
              minY == R(w.top + MARGIN_BORDER)
              maxY == RSub(RAdd(R(w.top), w.visible_height), R(MARGIN_BORDER))
              dx == RSub(last_screen_left', last_screen_left)
              dy == RSub(last_screen_top', last_screen_top)
          IN  /\ AxisShift(px, minX, maxX, dx)
              /\ AxisShift(py, minY, maxY, dy)
              /\ ( /\ w.left = 0 /\ w.top = 0
                    /\ w.visible_width = R(500) /\ w.visible_height = R(400) ) =>
                      /\ last_mouse_pos' = <<300, 200>> =>
                            UNCHANGED <<last_screen_left, last_screen_top>>
                      /\ last_mouse_pos' = <<10, 200>> =>
                            (dx = R(-40) /\ dy = R(0)) ]_vars

\* C12 witness: with the viewport {0, 0, 500, 400} around the anchor (0, 0),
\* a border-mode pointer tick found the pointer at (10, 200) and moved the
\* anchor to (-40, 0).
C12_Witness ==
    /\ ev.op = "tick" /\ ~ev.nvdaMoved /\ ev.mouseMoved
    /\ mode = "border" /\ screen = <<1000, 800>> /\ zoom = 4
    /\ last_mouse_pos = <<10, 200>>
    /\ last_nvda_pos = <<0, 0>>
    /\ <<last_screen_left, last_screen_top>> = <<R(-40), R(0)>>

\* Some renderer call of the step did not succeed.
RenderFailed == \E i \in DOMAIN rresults' : rresults'[i] # "ok"

\* What the dead-zone of the viewport of the anchor (x, y) asks of the
\* anchor for a pointer at p: the anchor moved by the two axis shifts.
BorderShifted(x, y, p, x2, y2) ==
    LET w == _getMagnifierWindow(x, y, zoom, screen)
    IN  /\ AxisShift(R(p[1]), R(w.left + MARGIN_BORDER),
                     RSub(RAdd(R(w.left), w.visible_width), R(MARGIN_BORDER)),
                     RSub(x2, x))
        /\ AxisShift(R(p[2]), R(w.top + MARGIN_BORDER),
                     RSub(RAdd(R(w.top), w.visible_height), R(MARGIN_BORDER)),
                     RSub(y2, y))

\* The tracking state, the zoom and the scheduling a step leaves when its
\* renderer calls succeed: a toggle-off only lowers the flag; a zoom command
\* steps the zoom and re-arms the timer; a tick records the winning reading,
\* moves the anchor (to the reading, or by the dead-zone shift) and re-arms
\* the timer if the session is active, clears it if not.
AsWhenRendered ==
    /\ mode' = mode
    /\ orphans' <= orphans
    /\ CASE ev'.op = "toggle" ->
               /\ ~magnifier_is_on'
               /\ UNCHANGED <<zoom, tracking, timer, orphans>>
          [] ev'.op \in ZoomOps ->
               /\ zoom' = IF ev'.op = "zoomIn" THEN Min(zoom + ZOOM_STEP, ZOOM_MAX)
                                                ELSE Max(zoom - ZOOM_STEP, ZOOM_MIN)
               /\ timer' = "running"
               /\ UNCHANGED <<magnifier_is_on, tracking, orphans>>
          [] ev'.op = "tick" ->
               /\ UNCHANGED <<magnifier_is_on, zoom>>
               /\ timer' = IF magnifier_is_on THEN "running" ELSE "None"
               /\ IF ev'.nvdaMoved
                  THEN /\ last_nvda_pos' = nvdaPos
                       /\ <<last_screen_left', last_screen_top'>> = Pt(nvdaPos)
                       /\ UNCHANGED last_mouse_pos
                  ELSE IF ev'.mouseMoved /\ mode = "center"
                  THEN /\ last_mouse_pos' = mousePos
                       /\ <<last_screen_left', last_screen_top'>> = Pt(mousePos)
                       /\ UNCHANGED last_nvda_pos
                  ELSE IF ev'.mouseMoved
                  THEN /\ BorderShifted(last_screen_left, last_screen_top,
                                        last_mouse_pos',
                                        last_screen_left', last_screen_top')
                       /\ UNCHANGED last_nvda_pos
                  ELSE UNCHANGED tracking
          [] OTHER -> FALSE

\* C13: a step (tick or command) in which a renderer call returned failure
\* or found the API unavailable leaves the tracking state (last positions,
\* anchor, mode), the zoom and the scheduling (next tick armed if the
\* session is active, timer cleared if not) as the step leaves them when
\* its calls succeed.
C13_FailureIgnored == [][ RenderFailed => AsWhenRendered ]_vars

\* C13 witness: in an active session a tick's transform found the API
\* unavailable and the next tick is scheduled.
C13_Witness ==
    /\ ev.op = "tick" /\ ev.on /\ ev.focus # <<>>
    /\ rresults = <<"unavailable">>
    /\ timer = "running"

\* C14 (as claimed): whenever the session is inactive the last positions,
\* the anchor and the mode hold their defaults ((0,0), (0,0), (0,0), center).
C14_DefaultsWhenInactive ==
    ~magnifier_is_on =>
        /\ last_nvda_pos = <<0, 0>>
        /\ last_mouse_pos = <<0, 0>>
        /\ <<last_screen_left, last_screen_top>> = Pt(<<0, 0>>)
        /\ mode = "center"

\* The timers pending: the one self.timer refers to, if it has not fired,
\* and those the plugin no longer refers to.
PendingTimers == (IF timer = "running" THEN 1 ELSE 0) + orphans

\* C15 (as claimed): at most one tick is scheduled at any moment.
C15_OneTickPending == PendingTimers <= 1

\* C16: every tick of an active session (review position won, pointer won
\* or idle) and every zoom command of an active session ends with the next
\* tick scheduled; so, a pending timer being fired sooner or later, again
\* and again the session is inactive or its last step is a tick.
C16_LoopNeverStalls ==
    /\ [][ ((ev'.op = "tick" \/ ev'.op \in ZoomOps) /\ magnifier_is_on) =>
               timer' = "running" ]_vars
    /\ []<>(~magnifier_is_on \/ ev.op = "tick")

\* C16 witness: an active session re-armed the timer after an idle tick.
C16_Witness ==
    /\ ev.op = "tick" /\ ev.on /\ ev.focus = <<>>
    /\ magnifier_is_on
    /\ timer = "running"

\* C17: a center-mode tick in which the review position is where it was and
\* the pointer is not centres on the pointer reading: the focus, the transform
\* sent, the anchor and last_mouse_pos are that reading, last_nvda_pos stays
\* and the cursor is not moved.
C17_PointerWinCenter ==
    [][ (ev'.op = "tick" /\ ~ev'.nvdaMoved /\ ev'.mouseMoved /\ mode = "center") =>
            LET pointerPos == ev'.mouse[1]
                target == <<R(pointerPos[1]), R(pointerPos[2])>>
            IN  /\ pointerPos = mousePos
                /\ ev'.focus = target
                /\ rcalls'[1] = CenterCall(target[1], target[2], zoom, screen)
                /\ <<last_screen_left', last_screen_top'>> = target
                /\ last_mouse_pos' = pointerPos
                /\ last_nvda_pos' = last_nvda_pos
                /\ ev'.warp = <<>>
                /\ mousePos' = mousePos ]_vars

\* C17 witness: a center-mode tick followed a pointer that left the anchor.
C17_Witness ==
    /\ ev.op = "tick" /\ ev.mouseMoved /\ ~ev.nvdaMoved
    /\ mode = "center"
    /\ ev.focus = <<R(mousePos[1]), R(mousePos[2])>>
    /\ last_mouse_pos = mousePos
    /\ last_mouse_pos # last_nvda_pos
    /\ ev.warp = <<>>

\* p is within one pixel of [lo, hi].
NearlyWithin(p, lo, hi) ==
    /\ ~RLt(p, RSub(lo, R(1)))
    /\ ~RLt(RAdd(hi, R(1)), p)

\* C18: after a border-mode pointer tick whose pointer is at least the margin
\* away from every screen edge, the visible area being more than two margins
\* wide and high, the viewport sent in that tick (that of the new anchor) has
\* the pointer within its inner bounds [left + margin, left + width - margin]
\* x [top + margin, top + height - margin], to one pixel, whatever the
\* earlier pointer movements were.
C18_PointerInsideMargin ==
    [][ BorderPointerTick =>
          LET pointer == last_mouse_pos'
              px == R(pointer[1])
              py == R(pointer[2])
              w  == _getMagnifierWindow(last_screen_left', last_screen_top', zoom, screen)
              margin == R(MARGIN_BORDER)
          IN  ( /\ MARGIN_BORDER <= pointer[1] /\ pointer[1] <= screen[1] - MARGIN_BORDER
                /\ MARGIN_BORDER <= pointer[2] /\ pointer[2] <= screen[2] - MARGIN_BORDER
                /\ RLt(R(2 * MARGIN_BORDER), w.visible_width)
                /\ RLt(R(2 * MARGIN_BORDER), w.visible_height) ) =>
                   /\ rcalls'[1] = Transform(zoom, w.left, w.top)
                   /\ NearlyWithin(px, RAdd(R(w.left), margin),
                                   RSub(RAdd(R(w.left), w.visible_width), margin))
                   /\ NearlyWithin(py, RAdd(R(w.top), margin),
                                   RSub(RAdd(R(w.top), w.visible_height), margin)) ]_vars

\* C19: in a border-mode pointer tick whose viewport is no wider than two
\* margins the dead-zone is the single coordinate maxX, and a pointer there
\* leaves the anchor's x alone (dx = 0); likewise for a viewport no higher
\* than two margins, maxY and dy.
C19_DeadZoneCollapsed ==
    [][ BorderPointerTick =>
          LET w  == _getMagnifierWindow(last_screen_left, last_screen_top, zoom, screen)
              px == R(last_mouse_pos'[1])
              py == R(last_mouse_pos'[2])
              maxX == RSub(RAdd(R(w.left), w.visible_width), R(MARGIN_BORDER))
              maxY == RSub(RAdd(R(w.top), w.visible_height), R(MARGIN_BORDER))
          IN  /\ (~RLt(R(2 * MARGIN_BORDER), w.visible_width) /\ px = maxX) =>
                     last_screen_left' = last_screen_left
              /\ (~RLt(R(2 * MARGIN_BORDER), w.visible_height) /\ py = maxY) =>
                     last_screen_top' = last_screen_top ]_vars

\* C20: with no mode command and each provider returning one value per
\* tick, the centered-only variant starts as the newer one does and every
\* toggle, zoom-in, zoom-out and tick is the same step of both: the same
\* renderer calls and cursor warp, the same zoom, last positions, anchor,
\* flag and timer afterwards.
C20_CenteredIsCenterMode ==
    /\ Centered_Init
    /\ [][ /\ script_ToggleMagnifier <=> script_toggleMagnifier
           /\ Centered_script_zoomIn <=> script_zoomIn
           /\ Centered_script_zoomOut <=> script_zoomOut
           /\ Centered_ChooseFocus(nvdaPos, mousePos) <=> _chooseFocus ]_vars

\* C20 witness: a session zoomed in to the top level, and a tick then
\* followed the review position, warping the cursor.
C20_Witness ==
    /\ ev.op = "tick" /\ ev.on /\ ev.nvdaMoved
    /\ ev.warp = <<nvdaPos>>
    /\ zoom = ZOOM_MAX
    /\ mode = "center"
    /\ Len(rcalls) = 1 /\ rcalls[1].zoom = ZOOM_MAX

\* C21: whenever the session is inactive and no tick timer is pending, the
\* referenced one and the ones the plugin lost track of included, the most
\* recent renderer call, if there is one, is the reset (zoom 1.0, origin
\* (0, 0)).
C21_ResetWhenQuiesced ==
    (~magnifier_is_on /\ PendingTimers = 0 /\ lastCall # <<>>) =>
        lastCall = <<Transform(ZOOM_RESET, 0, 0)>>

\* C21 witness: the tick left pending by a deactivation ran after it, sent a
\* zoomed transform and then the reset, and nothing is pending any more.
C21_Witness ==
    /\ ~magnifier_is_on /\ PendingTimers = 0
    /\ ev.op = "tick" /\ ~ev.on /\ ev.focus # <<>>
    /\ Len(rcalls) = 2 /\ rcalls[1].zoom # ZOOM_RESET
    /\ lastCall = <<ResetCall>>

\* p is a point of the screen.
OnScreen(p) ==
    /\ 0 <= p[1] /\ p[1] <= screen[1]
    /\ 0 <= p[2] /\ p[2] <= screen[2]

\* C22: in border mode, the readings of both providers being points of the
\* screen (those of BorderPoints all are, on both BorderScreens), the anchor
\* is a point of the screen: 0 <= last_screen_left <= width and
\* 0 <= last_screen_top <= height.
C22_AnchorOnScreen ==
    (mode = "border" /\ OnScreen(nvdaPos) /\ OnScreen(mousePos)) =>
        /\ ~RLt(last_screen_left, R(0)) /\ ~RLt(R(screen[1]), last_screen_left)
        /\ ~RLt(last_screen_top, R(0)) /\ ~RLt(R(screen[2]), last_screen_top)

\* The tick before was won by the review position, which warped the cursor,
\* and this step is the next tick: it reads the same review position and
\* finds the cursor where the warp put it, the zoom and the screen being
\* what they were and the visible area more than two margins wide and high.
WarpEcho ==
    /\ ev.op = "tick" /\ ev.nvdaMoved /\ ev.warp # <<>>
    /\ ev'.op = "tick"
    /\ ev'.nvda = ev.nvda
    /\ ev'.mouse = ev.warp
    /\ mousePos' = ev.warp[1]
    /\ zoom = ev.zoom /\ screen' = screen
    /\ RLt(R(2 * MARGIN_BORDER), Rat(2 * screen[1], zoom))
    /\ RLt(R(2 * MARGIN_BORDER), Rat(2 * screen[2], zoom))

\* C23: in either mode the tick that follows a tick won by the review
\* position, and only finds the cursor where that tick warped it, makes no
\* renderer call or sends the transform (zoom, left, top) that tick sent.
C23_EchoKeepsView ==
    [][ WarpEcho => (rcalls' = <<>> \/ rcalls'[1] = rcalls[1]) ]_vars

====
